---- MODULE Spec2Model ----
(***************************************************************************)
(* State-machine model of SmartThingsTV, the SmartThings cloud client of   *)
(* custom_components/samsungtv_smart/api/smartthings.py.                   *)
(*                                                                         *)
(* The object's fields are the record `tv`; every public method is an      *)
(* operator from the object and the answers of the service to the object   *)
(* it leaves, the requests it issued and the way it ended, and one action  *)
(* of the state machine.  `now` is the wall clock read by the Throttle     *)
(* decorator.  The other variables are observations that the modelled     *)
(* code never reads: `refreshPosts` is the history of the times at which  *)
(* a refresh-trigger POST went out, `lastUpdate` the way the last          *)
(* async_device_update went, `lastDoc` the states document read last and  *)
(* `hold` how far a source selection is from being overwritten and         *)
(* `discovery` the last call of the static get_devices_list.  `flight` is  *)
(* the await at which an update is suspended, in the machine that runs    *)
(* an update request by request.                                           *)
(***************************************************************************)
EXTENDS Integers, Sequences, FiniteSets, TLC

VARIABLES tv, now, refreshPosts, lastUpdate, lastDoc, hold, discovery, flight

vars == <<tv, now, refreshPosts, lastUpdate, lastDoc, hold, discovery, flight>>

(***************************************************************************)
(* Python values.  An optional value (None or a value) is the empty tuple  *)
(* or a one-element tuple.                                                 *)
(***************************************************************************)
None == <<>>

Some(x) == <<x>>

\* Python truthiness of an optional string: None and "" are falsy.
TruthyStr(o) == o # None /\ o[1] # ""

\* Python truthiness of an optional list: None and [] are falsy.
TruthyList(o) == o # None /\ o[1] # <<>>

\* dict.get(key, default) on an optional entry
GetOr(o, default) == IF o = None THEN default ELSE o[1]

\* ------------------------------------------------------------------------
\* Bounds of the model
\* ------------------------------------------------------------------------
\* the clock stops advancing here
MaxClock == 11

\* ------------------------------------------------------------------------
\* Program constants
\* ------------------------------------------------------------------------
\* MIN_TIME_BETWEEN_UPDATES = timedelta(seconds=10)
MIN_TIME_BETWEEN_UPDATES == 10

DIGITAL_TV == "digitalTv"

STATE_OFF == "STATE_OFF"

STATE_ON == "STATE_ON"

STATE_UNKNOWN == "STATE_UNKNOWN"

\* A Python number is the pair <<numerator, denominator>>, so that
\* int(device_volume) / 100 is kept exactly.
Ratio(n, d) == <<n, d>>

RatioEq(a, b) == a[1] * b[2] = b[1] * a[2]

RatioLeq(a, b) == a[1] * b[2] <= b[1] * a[2]

\* the literal 10 that __init__ stores in self._volume
INIT_VOLUME == 10

\* the divisor of int(device_volume) / 100
VOLUME_DIVISOR == 100

\* ------------------------------------------------------------------------
\* Requests and the ways a request fails
\* ------------------------------------------------------------------------
GET_HEALTH == "GET health"

GET_STATES == "GET states"

POST_REFRESH == "POST refresh"

POST_COMMAND == "POST command"

\* the exceptions async_device_update catches around the health check; the
\* same three are what any request of the session can raise
TransportErrors == {"AsyncTimeoutError", "ClientConnectionError", "ClientResponseError"}

\* str.upper() on the source ids the model uses
Upper(s) ==
    CASE s = "digitalTv" -> "DIGITALTV"
      [] s = "DigitalTV" -> "DIGITALTV"
      [] s = "digitaltv" -> "DIGITALTV"
      [] s = "dtv" -> "DTV"
      [] s = "Dtv" -> "DTV"
      [] OTHER -> s

\* str.isdigit() and int() on the volume strings the model uses
IsDigit(s) == s \in {"0", "100"}

ToInt(s) ==
    CASE s = "0" -> 0
      [] s = "100" -> 100

\* ------------------------------------------------------------------------
\* The states document of the service (GET /devices/{id}/states, "main")
\* ------------------------------------------------------------------------
\* A list or list-map field holds a JSON text.  A text is what json.loads
\* makes of it: kind "list" decodes to `decoded`, kind "garbage" raises
\* ValueError, kind "empty" is the empty string.
JsonList(l) == [kind |-> "list", decoded |-> l]

JsonGarbage == [kind |-> "garbage", decoded |-> <<>>]

JsonEmpty == [kind |-> "empty", decoded |-> <<>>]

\* an entry of a list-map: a dict whose keys "id" and "name" may be missing
Entry(id, name) == [id |-> id, name |-> name]

SoundModesMap == <<Entry(Some("snd1"), Some("Standard")), Entry(Some("snd2"), Some("Movie"))>>

PictureModesMap == <<Entry(Some("pic1"), Some("Dynamic"))>>

DocHdmi ==
    [volume |-> Some("0"), mute |-> Some("unmute"),
     soundMode |-> Some("Standard"),
     supportedSoundModes |-> Some(JsonList(<<"Standard", "Movie">>)),
     supportedSoundModesMap |-> Some(JsonList(SoundModesMap)),
     pictureMode |-> Some("Dynamic"),
     supportedPictureModes |-> Some(JsonList(<<"Dynamic">>)),
     supportedPictureModesMap |-> Some(JsonList(PictureModesMap)),
     supportedInputSourcesMap |->
        Some(JsonList(<<Entry(Some("dtv"), Some("TV")),
                        Entry(Some("HDMI1"), Some("PlayStation")),
                        Entry(None, Some("Unnamed"))>>)),
     inputSource |-> Some("HDMI1"),
     tvChannel |-> Some(""), tvChannelName |-> Some("")]

DocTv ==
    [volume |-> Some("100"), mute |-> Some("mute"),
     soundMode |-> Some("Movie"),
     supportedSoundModes |-> Some(JsonList(<<"Standard", "Movie">>)),
     supportedSoundModesMap |-> Some(JsonList(SoundModesMap)),
     pictureMode |-> Some("Dynamic"),
     supportedPictureModes |-> Some(JsonList(<<"Dynamic">>)),
     supportedPictureModesMap |-> Some(JsonList(PictureModesMap)),
     supportedInputSourcesMap |->
        Some(JsonList(<<Entry(Some("DTV"), Some("Antenna")),
                        Entry(Some("HDMI2"), None)>>)),
     inputSource |-> Some("DIGITALTV"),
     tvChannel |-> Some("5"), tvChannelName |-> Some("BBC")]

\* a document with nothing in it
DocBare ==
    [volume |-> None, mute |-> None,
     soundMode |-> None,
     supportedSoundModes |-> None,
     supportedSoundModesMap |-> Some(JsonGarbage),
     pictureMode |-> None,
     supportedPictureModes |-> Some(JsonEmpty),
     supportedPictureModesMap |-> None,
     supportedInputSourcesMap |-> None,
     inputSource |-> None,
     tvChannel |-> None, tvChannelName |-> None]

DocOddVolume == [DocBare EXCEPT !.volume = Some("abc"), !.tvChannel = Some("7")]

\* the documents of the model, by name
DocNames == {"hdmi", "tv", "bare", "odd"}

Doc(name) ==
    CASE name = "hdmi" -> DocHdmi
      [] name = "tv" -> DocTv
      [] name = "bare" -> DocBare
      [] name = "odd" -> DocOddVolume

\* ------------------------------------------------------------------------
\* SmartThingsTV
\* ------------------------------------------------------------------------
\* __init__: the fields of a new object.  throttle is the time of the last
\* admitted call that the Throttle decorator keeps on the object.
NewTV(device_id, use_channel_info) ==
    [device_id |-> device_id,
     use_channel_info |-> use_channel_info,
     state |-> STATE_UNKNOWN,
     prev_state |-> STATE_UNKNOWN,
     muted |-> FALSE,
     volume |-> Ratio(INIT_VOLUME, 1),
     source_list |-> None,
     source_list_map |-> None,
     source |-> "",
     channel |-> "",
     channel_name |-> "",
     sound_mode |-> None,
     sound_mode_list |-> None,
     sound_mode_list_map |-> None,
     picture_mode |-> None,
     picture_mode_list |-> None,
     picture_mode_list_map |-> None,
     is_forced_val |-> FALSE,
     forced_count |-> 0,
     throttle |-> None]

\* What a call leaves behind: the object, the requests it issued in order
\* and how it ended ("ok" when it returned, else the exception it raised).
Ret(t, net, outcome) == [tv |-> t, net |-> net, outcome |-> outcome]

Range(seq) == {seq[i] : i \in 1..Len(seq)}

\* _load_json_list(dev_data, list_name), given dev_data[list_name]["value"]
_load_json_list(json_list) ==
    IF json_list # None /\ json_list[1].kind # "empty"
    THEN IF json_list[1].kind = "list" THEN json_list[1].decoded ELSE <<>>
    ELSE <<>>

\* the loop of _get_source_list_from_map over the entries
RECURSIVE source_ids(_)
source_ids(map) ==
    IF map = <<>> THEN <<>>
    ELSE LET source_id == Head(map).id
         IN (IF TruthyStr(source_id)
             THEN IF Upper(source_id[1]) = "DTV" THEN <<DIGITAL_TV>> ELSE <<source_id[1]>>
             ELSE <<>>) \o source_ids(Tail(map))

\* the property sound_mode without the test of the state
sound_mode_unguarded(t) == t.sound_mode

\* the properties sound_mode, sound_mode_list, picture_mode and
\* picture_mode_list: what a caller reads
sound_mode(t) == IF t.state # STATE_ON THEN None ELSE t.sound_mode

sound_mode_list(t) == IF t.state # STATE_ON THEN None ELSE t.sound_mode_list

picture_mode(t) == IF t.state # STATE_ON THEN None ELSE t.picture_mode

picture_mode_list(t) == IF t.state # STATE_ON THEN None ELSE t.picture_mode_list

\* the loop of get_source_name: the name of the first entry whose id is
\* source_id, "" when it has no name or there is no such entry
RECURSIVE find_source_name(_, _)
find_source_name(map, source_id) ==
    IF map = <<>> THEN ""
    ELSE LET map_id == Head(map).id
         IN IF TruthyStr(map_id) /\ map_id[1] = source_id
            THEN GetOr(Head(map).name, "")
            ELSE find_source_name(Tail(map), source_id)

\* get_source_name(self, source_id)
get_source_name(t, source_id) ==
    IF ~TruthyList(t.source_list_map) THEN ""
    ELSE find_source_name(t.source_list_map[1],
                          IF Upper(source_id) = Upper(DIGITAL_TV) THEN "dtv" ELSE source_id)

\* the entry e of a list-map has an id that is not empty
HasId(e) == e.id # None /\ e.id[1] # ""

\* _get_source_list_from_map comparing the id with "DTV" as it is written
_get_source_list_from_map_case_sensitive(t) ==
    IF ~TruthyList(t.source_list_map) THEN <<>>
    ELSE LET with_id == SelectSeq(t.source_list_map[1], HasId)
         IN [i \in 1..Len(with_id) |->
                IF with_id[i].id[1] = "DTV" THEN DIGITAL_TV ELSE with_id[i].id[1]]

\* _get_source_list_from_map(self)
_get_source_list_from_map(t) ==
    IF ~TruthyList(t.source_list_map) THEN <<>>
    ELSE source_ids(t.source_list_map[1])

\* set_application(self, app_id)
set_application(t, app_id) ==
    IF t.use_channel_info
    THEN [t EXCEPT !.channel = "", !.channel_name = app_id,
                   !.is_forced_val = TRUE, !.forced_count = 0]
    ELSE t

\* _set_source without the comparison with the cached source
_set_source_always(t, source) ==
    [t EXCEPT !.source = source, !.channel = "", !.channel_name = "",
              !.is_forced_val = TRUE, !.forced_count = 0]

\* _set_source without the override mark
_set_source_unmarked(t, source) ==
    IF source # t.source
    THEN [t EXCEPT !.source = source, !.channel = "", !.channel_name = ""]
    ELSE t

\* _set_source(self, source)
_set_source(t, source) ==
    IF source # t.source
    THEN [t EXCEPT !.source = source, !.channel = "", !.channel_name = "",
                   !.is_forced_val = TRUE, !.forced_count = 0]
    ELSE t

\* the body of _device_refresh with raise_for_status=True: a 409 raises
_device_refresh_body_raising(t, refresh) ==
    IF t.device_id = "" THEN Ret(t, <<>>, "ok")
    ELSE IF t.use_channel_info
    THEN IF refresh = "409" \/ refresh \in TransportErrors
         THEN Ret(t, <<POST_REFRESH>>, "ClientResponseError")
         ELSE Ret(t, <<POST_REFRESH>>, "ok")
    ELSE Ret(t, <<>>, "ok")

\* the body of _device_refresh; refresh is the answer to the POST
_device_refresh_body(t, refresh) ==
    IF t.device_id = "" THEN Ret(t, <<>>, "ok")
    ELSE IF t.use_channel_info
    THEN IF refresh = "409"
         THEN Ret([t EXCEPT !.state = STATE_OFF], <<POST_REFRESH>>, "ok")
         ELSE IF refresh \in TransportErrors
         THEN Ret(t, <<POST_REFRESH>>, refresh)
         ELSE Ret(t, <<POST_REFRESH>>, "ok")
    ELSE Ret(t, <<>>, "ok")

\* _device_refresh without the decorator
_device_refresh_unthrottled(t, clock, refresh) == _device_refresh_body(t, refresh)

\* _device_refresh as decorated by @Throttle(MIN_TIME_BETWEEN_UPDATES): the
\* body runs when the method was never admitted before or more than the
\* interval has passed since; the admission time is taken when the call is
\* made.  A throttled call returns None and does nothing.
_device_refresh(t, clock, refresh) ==
    IF t.throttle = None \/ clock - t.throttle[1] > MIN_TIME_BETWEEN_UPDATES
    THEN _device_refresh_body([t EXCEPT !.throttle = Some(clock)], refresh)
    ELSE Ret(t, <<>>, "ok")

\* async_device_update, "Volume" to "Sources and channel": the telemetry
\* read from the document dev_data
parse_telemetry(t, dev_data) ==
    LET device_volume == dev_data.volume
        t1 == [t EXCEPT
                 !.volume = IF TruthyStr(device_volume) /\ IsDigit(device_volume[1])
                            THEN Ratio(ToInt(device_volume[1]), VOLUME_DIVISOR)
                            ELSE Ratio(0, 1),
                 !.muted = (GetOr(dev_data.mute, "") = "mute"),
                 !.sound_mode = dev_data.soundMode,
                 !.sound_mode_list = Some(_load_json_list(dev_data.supportedSoundModes)),
                 !.sound_mode_list_map = Some(_load_json_list(dev_data.supportedSoundModesMap)),
                 !.picture_mode = dev_data.pictureMode,
                 !.picture_mode_list = Some(_load_json_list(dev_data.supportedPictureModes)),
                 !.picture_mode_list_map = Some(_load_json_list(dev_data.supportedPictureModesMap)),
                 !.source_list_map = Some(_load_json_list(dev_data.supportedInputSourcesMap))]
    IN  [t1 EXCEPT !.source_list = Some(_get_source_list_from_map(t1))]

\* the end of async_device_update counting every cycle with forced values
adopt_source_counting(t, dev_data) ==
    IF t.is_forced_val
    THEN [t EXCEPT !.forced_count = @ + 1]
    ELSE [t EXCEPT
            !.source = IF Upper(GetOr(dev_data.inputSource, "")) = Upper(DIGITAL_TV)
                       THEN DIGITAL_TV ELSE GetOr(dev_data.inputSource, ""),
            !.channel = IF t.use_channel_info THEN GetOr(dev_data.tvChannel, "") ELSE "",
            !.channel_name = IF t.use_channel_info THEN GetOr(dev_data.tvChannelName, "") ELSE ""]

\* async_device_update, the end: the forced values are kept for one cycle,
\* otherwise source and channel are taken from the document
adopt_source(t, dev_data) ==
    IF t.is_forced_val /\ t.forced_count <= 0
    THEN [t EXCEPT !.forced_count = @ + 1]
    ELSE LET device_source == GetOr(dev_data.inputSource, "")
             device_tv_chan == GetOr(dev_data.tvChannel, "")
             device_tv_chan_name == GetOr(dev_data.tvChannelName, "")
         IN [t EXCEPT
               !.is_forced_val = FALSE,
               !.forced_count = 0,
               !.source = IF device_source # "" /\ Upper(device_source) = Upper(DIGITAL_TV)
                          THEN DIGITAL_TV ELSE device_source,
               !.channel = IF t.use_channel_info THEN device_tv_chan ELSE "",
               !.channel_name = IF t.use_channel_info THEN device_tv_chan_name ELSE ""]

\* async_device_update, the start: the argument and the previous state
update_begin(t, use_channel_info) ==
    [t EXCEPT !.use_channel_info = IF use_channel_info # None THEN use_channel_info[1] ELSE @,
              !.prev_state = t.state]

\* the except clause around the health check counting the update as the
\* one cycle of the forced values
health_failed_counted(t) ==
    Ret([t EXCEPT !.state = STATE_UNKNOWN,
                  !.forced_count = IF t.is_forced_val THEN 1 ELSE @],
        <<GET_HEALTH>>, "ok")

\* the health check without the except clause
health_failed_uncaught(t) == Ret(t, <<GET_HEALTH>>, "ClientConnectionError")

\* async_device_update, the except clause around the health check
health_failed(t) == Ret([t EXCEPT !.state = STATE_UNKNOWN], <<GET_HEALTH>>, "ok")

\* the states request with its failure caught like the health check's
fetch_states_caught(t, net, states) ==
    IF states.status \in TransportErrors
    THEN Ret([t EXCEPT !.state = STATE_UNKNOWN], net \o <<GET_STATES>>, "ok")
    ELSE LET dev_data == Doc(states.data[1])
         IN Ret(adopt_source(parse_telemetry(t, dev_data), dev_data),
                net \o <<GET_STATES>>, "ok")

\* async_device_update, the states request: raise_for_status=True lets a
\* failure out, an answer is parsed
fetch_states(t, net, states) ==
    IF states.status \in TransportErrors
    THEN Ret(t, net \o <<GET_STATES>>, states.status)
    ELSE LET dev_data == Doc(states.data[1])
         IN Ret(adopt_source(parse_telemetry(t, dev_data), dev_data),
                net \o <<GET_STATES>>, "ok")

\* async_device_update(self, use_channel_info): use_channel_info is None or
\* a boolean; health, refresh and states are the answers of the service to
\* the health check, the refresh trigger and the states request.
async_device_update(t, clock, use_channel_info, health, refresh, states) ==
    IF t.device_id = "" THEN Ret(t, <<>>, "ok")
    ELSE
    LET t1 == update_begin(t, use_channel_info)
    IN  IF health \in TransportErrors THEN health_failed(t1)
        ELSE IF health # "ONLINE"
        THEN Ret([t1 EXCEPT !.state = STATE_OFF], <<GET_HEALTH>>, "ok")
        ELSE
        LET r == _device_refresh([t1 EXCEPT !.state = STATE_ON], clock, refresh)
            net == <<GET_HEALTH>> \o r.net
        IN  IF r.outcome # "ok" THEN Ret(r.tv, net, r.outcome)
            ELSE IF r.tv.state = STATE_OFF THEN Ret(r.tv, net, "ok")
            ELSE fetch_states(r.tv, net, states)

\* ------------------------------------------------------------------------
\* Commands
\* ------------------------------------------------------------------------
COMMAND_POWER_OFF == [capability |-> "switch", command |-> "off"]

COMMAND_POWER_ON == [capability |-> "switch", command |-> "on"]

COMMAND_SET_SOURCE == [capability |-> "mediaInputSource", command |-> "setInputSource"]

COMMAND_SET_VD_SOURCE == [capability |-> "samsungvd.mediaInputSource", command |-> "setInputSource"]

COMMAND_MUTE == [capability |-> "audioMute", command |-> "mute"]

COMMAND_UNMUTE == [capability |-> "audioMute", command |-> "unmute"]

COMMAND_VOLUME_UP == [capability |-> "audioVolume", command |-> "volumeUp"]

COMMAND_VOLUME_DOWN == [capability |-> "audioVolume", command |-> "volumeDown"]

COMMAND_SET_VOLUME == [capability |-> "audioVolume", command |-> "setVolume"]

COMMAND_CHANNEL_UP == [capability |-> "tvChannel", command |-> "channelUp"]

COMMAND_CHANNEL_DOWN == [capability |-> "tvChannel", command |-> "channelDown"]

COMMAND_SET_CHANNEL == [capability |-> "tvChannel", command |-> "setTvChannel"]

COMMAND_SOUND_MODE == [capability |-> "samsungvd.soundMode", command |-> "setSoundMode"]

COMMAND_PICTURE_MODE == [capability |-> "samsungvd.pictureMode", command |-> "setPictureMode"]

\* _command(command, arguments): the serialized payload, never empty.  No
\* arguments is the empty tuple.
_command(command, arguments) ==
    Some([component |-> "main", capability |-> command.capability,
          command |-> command.command, arguments |-> arguments])

\* _async_send_command followed by a read of the states document
_async_send_command_refetching(t, clock, data_cmd, post, refresh) ==
    IF t.device_id = "" THEN Ret(t, <<>>, "ok")
    ELSE IF data_cmd = None THEN Ret(t, <<>>, "ok")
    ELSE IF post \in TransportErrors
    THEN Ret(t, <<POST_COMMAND>>, post)
    ELSE LET r == _device_refresh(t, clock, refresh)
         IN Ret(r.tv, <<POST_COMMAND>> \o r.net \o <<GET_STATES>>, r.outcome)

\* _async_send_command(self, data_cmd): post is the answer to the command
\* POST (raise_for_status=True), refresh the answer to the refresh trigger
_async_send_command(t, clock, data_cmd, post, refresh) ==
    IF t.device_id = "" THEN Ret(t, <<>>, "ok")
    ELSE IF data_cmd = None THEN Ret(t, <<>>, "ok")
    ELSE IF post \in TransportErrors
    THEN Ret(t, <<POST_COMMAND>>, post)
    ELSE LET r == _device_refresh(t, clock, refresh)
         IN Ret(r.tv, <<POST_COMMAND>> \o r.net, r.outcome)

\* async_turn_off(self)
async_turn_off(t, clock, post, refresh) ==
    _async_send_command(t, clock, _command(COMMAND_POWER_OFF, <<>>), post, refresh)

\* async_turn_on(self)
async_turn_on(t, clock, post, refresh) ==
    _async_send_command(t, clock, _command(COMMAND_POWER_ON, <<>>), post, refresh)

\* int(command) on the command strings the model uses
IsIntLiteral(s) == s \in {"5"}

\* async_send_command(self, cmd_type, command)
async_send_command(t, clock, cmd_type, command, post, refresh) ==
    IF cmd_type = "setvolume" /\ ~IsIntLiteral(command)
    THEN Ret(t, <<>>, "ValueError")
    ELSE IF cmd_type \notin {"setvolume", "stepvolume", "audiomute", "selectchannel", "stepchannel"}
    THEN Ret(t, <<>>, "ok")
    ELSE
    LET data_cmd ==
          CASE cmd_type = "setvolume" -> _command(COMMAND_SET_VOLUME, <<command>>)
            [] cmd_type = "stepvolume" ->
                 IF command = "up" THEN _command(COMMAND_VOLUME_UP, <<>>)
                 ELSE IF command = "down" THEN _command(COMMAND_VOLUME_DOWN, <<>>)
                 ELSE None
            [] cmd_type = "audiomute" ->
                 IF command = "on" THEN _command(COMMAND_MUTE, <<>>)
                 ELSE IF command = "off" THEN _command(COMMAND_UNMUTE, <<>>)
                 ELSE None
            [] cmd_type = "selectchannel" -> _command(COMMAND_SET_CHANNEL, <<command>>)
            [] cmd_type = "stepchannel" ->
                 IF command = "up" THEN _command(COMMAND_CHANNEL_UP, <<>>)
                 ELSE IF command = "down" THEN _command(COMMAND_CHANNEL_DOWN, <<>>)
                 ELSE None
    IN _async_send_command(t, clock, data_cmd, post, refresh)

\* async_select_source(self, source)
async_select_source(t, clock, source, post, refresh) ==
    LET data_cmd == _command(COMMAND_SET_SOURCE, <<source>>)
    IN _async_send_command(_set_source(t, source), clock, data_cmd, post, refresh)

\* async_select_vd_source(self, source)
async_select_vd_source(t, clock, source, post, refresh) ==
    _async_send_command(t, clock, _command(COMMAND_SET_VD_SOURCE, <<source>>), post, refresh)

\* the lookup loop of async_set_sound_mode / async_set_picture_mode: the
\* "id" of the first entry whose "name" is mode, None when there is none
RECURSIVE find_mode_id(_, _)
find_mode_id(list_map, mode) ==
    IF list_map = <<>> THEN None
    ELSE IF Head(list_map).name = Some(mode) THEN Head(list_map).id
    ELSE find_mode_id(Tail(list_map), mode)

\* async_set_sound_mode without the check of the state
async_set_sound_mode_unguarded(t, clock, mode, post, refresh) ==
    IF t.sound_mode_list_map = None THEN Ret(t, <<>>, "TypeError")
    ELSE
    LET mode_id == find_mode_id(t.sound_mode_list_map[1], mode)
    IN  IF mode_id = None THEN Ret(t, <<>>, "InvalidSmartThingsSoundMode")
        ELSE LET r == _async_send_command(t, clock, _command(COMMAND_SOUND_MODE, mode_id),
                                          post, refresh)
             IN IF r.outcome = "ok"
                THEN [r EXCEPT !.tv = [r.tv EXCEPT !.sound_mode = Some(mode)]]
                ELSE r

\* async_set_sound_mode(self, mode); iterating over None raises TypeError
async_set_sound_mode(t, clock, mode, post, refresh) ==
    IF t.state # STATE_ON THEN Ret(t, <<>>, "ok")
    ELSE IF t.sound_mode_list_map = None THEN Ret(t, <<>>, "TypeError")
    ELSE
    LET mode_id == find_mode_id(t.sound_mode_list_map[1], mode)
    IN  IF mode_id = None THEN Ret(t, <<>>, "InvalidSmartThingsSoundMode")
        ELSE LET r == _async_send_command(t, clock, _command(COMMAND_SOUND_MODE, mode_id),
                                          post, refresh)
             IN IF r.outcome = "ok"
                THEN [r EXCEPT !.tv = [r.tv EXCEPT !.sound_mode = Some(mode)]]
                ELSE r

\* async_set_picture_mode(self, mode)
async_set_picture_mode(t, clock, mode, post, refresh) ==
    IF t.state # STATE_ON THEN Ret(t, <<>>, "ok")
    ELSE IF t.picture_mode_list_map = None THEN Ret(t, <<>>, "TypeError")
    ELSE
    LET mode_id == find_mode_id(t.picture_mode_list_map[1], mode)
    IN  IF mode_id = None THEN Ret(t, <<>>, "InvalidSmartThingsPictureMode")
        ELSE LET r == _async_send_command(t, clock, _command(COMMAND_PICTURE_MODE, mode_id),
                                          post, refresh)
             IN IF r.outcome = "ok"
                THEN [r EXCEPT !.tv = [r.tv EXCEPT !.picture_mode = Some(mode)]]
                ELSE r

\* ------------------------------------------------------------------------
\* The inputs the environment chooses from
\* ------------------------------------------------------------------------
DeviceIds == {"", "tv-1"}

\* one tick stays inside the throttle interval, the other leaves it
TickSteps == {MIN_TIME_BETWEEN_UPDATES, MIN_TIME_BETWEEN_UPDATES + 1}

HealthAnswers == {"ONLINE", "OFFLINE"} \cup TransportErrors

\* the failure the answers to the other requests are drawn from
RequestErrors == {"ClientResponseError"}

RefreshAnswers == {"200", "409"} \cup RequestErrors

PostAnswers == {"200"} \cup RequestErrors

\* an answer to the states request: a document, by name, or a failure
StatesAnswers ==
    {[status |-> "200", data |-> Some(d)] : d \in DocNames}
    \cup {[status |-> e, data |-> None] : e \in RequestErrors}

\* The answers of the service to one async_device_update: to the health
\* check, the refresh trigger and the states request.
AllUpdateAnswers ==
    [health : HealthAnswers, refresh : RefreshAnswers, states : StatesAnswers]

\* The same with one answer in the place of every request that is never
\* issued: after a health check that is not ONLINE nothing else is asked,
\* and after a refresh trigger answered other than 200 no states are asked.
NotAsked == [status |-> "ClientResponseError", data |-> None]

UpdateAnswers ==
    {a \in AllUpdateAnswers :
        /\ a.health # "ONLINE" => a.refresh = "200" /\ a.states = NotAsked
        /\ a.refresh # "200" => a.states = NotAsked}

\* The answers to one command: to the command POST and the refresh trigger;
\* after a failed command POST no refresh is asked.
AllCommandAnswers == [post : PostAnswers, refresh : RefreshAnswers]

CommandAnswers == {a \in AllCommandAnswers : a.post # "200" => a.refresh = "200"}

UseChannelInfoArgs == {None, Some(TRUE), Some(FALSE)}

SourceArgs == {"HDMI2"}

SoundModeArgs == {"Movie", "NonexistentMode"}

PictureModeArgs == {"Dynamic", "NonexistentMode"}

AppIds == {"Netflix"}

\* the (cmd_type, command) pairs async_send_command is called with: every
\* branch of its dispatch once
SendCommandArgs ==
    {<<"setvolume", "5">>, <<"setvolume", "up">>,
     <<"stepvolume", "up">>, <<"stepvolume", "down">>, <<"stepvolume", "on">>,
     <<"audiomute", "on">>, <<"audiomute", "off">>, <<"audiomute", "up">>,
     <<"selectchannel", "5">>,
     <<"stepchannel", "up">>, <<"stepchannel", "down">>, <<"stepchannel", "off">>,
     <<"bogus", "5">>}

\* ------------------------------------------------------------------------
\* Device discovery
\* ------------------------------------------------------------------------
\* the longest list of devices the service answers with
MaxDevices == 2

DEVICE_TYPE_OCF == "OCF"

DEVICE_TYPE_NAME_TV == "Samsung OCF TV"

\* an item of the answer of the service; every key may be missing
Dev(deviceId, type, deviceTypeName, label, name) ==
    [deviceId |-> deviceId, type |-> type, deviceTypeName |-> deviceTypeName,
     label |-> label, name |-> name]

\* the items of the model: a TV, a TV with neither label nor name, an OCF
\* device that is no TV, a TV of another type, an item without id and one
\* with nothing but an id
Devs ==
    {Dev(Some("a"), Some("OCF"), Some("Samsung OCF TV"), Some("Living"), Some("Frame")),
     Dev(Some("b"), Some("OCF"), Some("Samsung OCF TV"), None, None),
     Dev(Some("c"), Some("OCF"), Some("Samsung OCF Air Conditioner"), Some("Living"), Some("AC")),
     Dev(Some("d"), Some("VIPER"), Some("Samsung OCF TV"), Some("Living"), Some("Old")),
     Dev(None, Some("OCF"), Some("Samsung OCF TV"), Some("Living"), Some("Ghost")),
     Dev(Some("e"), None, None, None, None)}

\* the documents of the service: one without "items" (None), or one with
\* up to MaxDevices items
DeviceLists == {None} \cup {Some(l) : l \in UNION {[1..n -> Devs] : n \in 0..MaxDevices}}

\* the answers to the GET of the devices: a document, or an error
DevicesAnswers ==
    {[status |-> "200", data |-> l] : l \in DeviceLists}
    \cup {[status |-> e, data |-> None] : e \in TransportErrors}

\* the device_label arguments; "" is no filter
LabelFilters == {"", "Living", "Bedroom"}

\* the empty dict
EmptyDict == [k \in {} |-> k]

\* get_devices_list, the loop over the items: result is the dict so far
RECURSIVE collect_devices_any_type_name(_, _, _)
collect_devices_any_type_name(items, device_label, result) ==
    IF items = <<>> THEN result
    ELSE LET dev == Head(items)
             device_id == dev.deviceId
             label == GetOr(dev.label, "")
         IN IF device_id = None \/ GetOr(dev.type, "") # DEVICE_TYPE_OCF
               \/ (device_label # "" /\ label # device_label)
            THEN collect_devices_any_type_name(Tail(items), device_label, result)
            ELSE collect_devices_any_type_name(
                     Tail(items), device_label,
                     (device_id[1] :> [name |-> GetOr(dev.name, "TV ID " \o device_id[1]),
                                       label |-> label]) @@ result)

RECURSIVE collect_devices(_, _, _)
collect_devices(items, device_label, result) ==
    IF items = <<>> THEN result
    ELSE LET dev == Head(items)
             device_id == dev.deviceId
             label == GetOr(dev.label, "")
         IN IF device_id = None \/ GetOr(dev.type, "") # DEVICE_TYPE_OCF
               \/ (device_label # "" /\ label # device_label)
               \/ (device_label = "" /\ GetOr(dev.deviceTypeName, "") # DEVICE_TYPE_NAME_TV)
            THEN collect_devices(Tail(items), device_label, result)
            ELSE collect_devices(
                     Tail(items), device_label,
                     (device_id[1] :> [name |-> GetOr(dev.name, "TV ID " \o device_id[1]),
                                       label |-> label]) @@ result)

\* get_devices_list(api_key, session, device_label): answer is an error of
\* the GET (raise_for_status=True) or the document of the service
get_devices_list(answer, device_label) ==
    IF answer.status \in TransportErrors
    THEN [outcome |-> answer.status, result |-> EmptyDict]
    ELSE [outcome |-> "ok",
          result |-> collect_devices(GetOr(answer.data, <<>>), device_label, EmptyDict)]

\* no call of get_devices_list yet
NoDiscovery ==
    [called |-> FALSE, answer |-> [status |-> "200", data |-> None], device_label |-> "",
     outcome |-> "ok", result |-> EmptyDict]

\* no update is suspended and no selection has overlapped one
NoFlight == [pc |-> "idle", overlap |-> "none", selected |-> ""]

\* ------------------------------------------------------------------------
\* The state machine
\* ------------------------------------------------------------------------
Init ==
    /\ tv \in {NewTV(d, u) : d \in DeviceIds, u \in BOOLEAN}
    /\ now = 0
    /\ refreshPosts = <<>>
    /\ lastUpdate = "none"
    /\ lastDoc = None
    /\ hold = [phase |-> "idle", source |-> ""]
    /\ discovery = NoDiscovery
    /\ flight = NoFlight

\* the time clock, once for every refresh-trigger POST among the requests
RECURSIVE RefreshStamps(_, _)
RefreshStamps(net, clock) ==
    IF net = <<>> THEN <<>>
    ELSE (IF Head(net) = POST_REFRESH THEN <<clock>> ELSE <<>>)
         \o RefreshStamps(Tail(net), clock)

\* the object and the history of refresh POSTs after a call that ran as r says
Called(r) ==
    /\ tv' = r.tv
    /\ refreshPosts' = refreshPosts \o RefreshStamps(r.net, now)
    /\ UNCHANGED <<now, discovery, flight>>

\* the call r read the states document: the states request went out and
\* the call returned
FullFetch(r) == r.outcome = "ok" /\ GET_STATES \in Range(r.net)

\* The way an update went, told from the requests it issued and the
\* answers they got.
UpdatePath(r, a) ==
    IF r.net = <<>> THEN "no_device"
    ELSE IF a.health \in TransportErrors THEN "health_error"
    ELSE IF a.health # "ONLINE" THEN "offline"
    ELSE IF POST_REFRESH \in Range(r.net) /\ a.refresh = "409" THEN "refresh_409"
    ELSE IF POST_REFRESH \in Range(r.net) /\ a.refresh \in TransportErrors THEN "refresh_error"
    ELSE IF a.states.status \in TransportErrors THEN "states_error"
    ELSE "fetched"

\* a call that is neither a source selection, nor an update that reads the
\* document, nor set_application: a selection stays as far from being
\* overwritten as it was, and an adoption is over
AfterOtherCall ==
    IF hold.phase = "adopted" THEN [phase |-> "idle", source |-> ""] ELSE hold

\* a command that leaves the observations of updates and selections alone
Command(r) ==
    /\ Called(r)
    /\ hold' = AfterOtherCall
    /\ UNCHANGED <<lastUpdate, lastDoc>>

Tick ==
    \E d \in TickSteps :
        /\ now + d <= MaxClock
        /\ now' = now + d
        /\ UNCHANGED <<tv, refreshPosts, lastUpdate, lastDoc, hold, discovery, flight>>

\* the ways an update ends early without raising
EarlyEnds == {"health_error", "offline", "refresh_409"}

\* a selection after an update that went the way path: an update that reads
\* the document moves it from selected to held and from held to adopted.
\* An update that ends early right after the selection makes it missed, and
\* the read after that held_after_miss; after any other update that does
\* not read the document the selection is polled, and the first read makes
\* it held.
AfterUpdate(path) ==
    IF path = "fetched"
    THEN IF hold.phase \in {"selected", "polled"} THEN [hold EXCEPT !.phase = "held"]
         ELSE IF hold.phase = "missed" THEN [hold EXCEPT !.phase = "held_after_miss"]
         ELSE IF hold.phase \in {"held", "held_after_miss"} THEN [hold EXCEPT !.phase = "adopted"]
         ELSE [phase |-> "idle", source |-> ""]
    ELSE IF hold.phase = "selected"
    THEN [hold EXCEPT !.phase = IF path \in EarlyEnds THEN "missed" ELSE "polled"]
    ELSE IF hold.phase = "missed" THEN [hold EXCEPT !.phase = "polled"]
    ELSE AfterOtherCall

Update ==
    \E u \in UseChannelInfoArgs, a \in UpdateAnswers :
        LET r == async_device_update(tv, now, u, a.health, a.refresh, a.states)
        IN /\ Called(r)
           /\ lastUpdate' = UpdatePath(r, a)
           /\ lastDoc' = IF FullFetch(r) THEN a.states.data ELSE lastDoc
           /\ hold' = AfterUpdate(UpdatePath(r, a))

TurnOff ==
    \E a \in CommandAnswers : Command(async_turn_off(tv, now, a.post, a.refresh))

TurnOn ==
    \E a \in CommandAnswers : Command(async_turn_on(tv, now, a.post, a.refresh))

SendCommand ==
    \E cv \in SendCommandArgs, a \in CommandAnswers :
        Command(async_send_command(tv, now, cv[1], cv[2], a.post, a.refresh))

\* selecting a source other than the cached one starts a selection
SelectSource ==
    \E src \in SourceArgs, a \in CommandAnswers :
        /\ Called(async_select_source(tv, now, src, a.post, a.refresh))
        /\ hold' = IF src # tv.source THEN [phase |-> "selected", source |-> src]
                   ELSE AfterOtherCall
        /\ UNCHANGED <<lastUpdate, lastDoc>>

SelectVdSource ==
    \E src \in SourceArgs, a \in CommandAnswers :
        Command(async_select_vd_source(tv, now, src, a.post, a.refresh))

SetSoundMode ==
    \E m \in SoundModeArgs, a \in CommandAnswers :
        Command(async_set_sound_mode(tv, now, m, a.post, a.refresh))

SetPictureMode ==
    \E m \in PictureModeArgs, a \in CommandAnswers :
        Command(async_set_picture_mode(tv, now, m, a.post, a.refresh))

\* set_application is another local change: it ends a selection
SetApplication ==
    \E app_id \in AppIds :
        /\ Called(Ret(set_application(tv, app_id), <<>>, "ok"))
        /\ hold' = [phase |-> "idle", source |-> ""]
        /\ UNCHANGED <<lastUpdate, lastDoc>>

Next ==
    \/ Tick
    \/ Update
    \/ TurnOff
    \/ TurnOn
    \/ SendCommand
    \/ SelectSource
    \/ SelectVdSource
    \/ SetSoundMode
    \/ SetPictureMode
    \/ SetApplication

Spec == Init /\ [][Next]_vars

\* get_devices_list is static: it runs without an object, as a state machine
\* of its own
GetDevicesList ==
    \E answer \in DevicesAnswers, device_label \in LabelFilters :
        LET r == get_devices_list(answer, device_label)
        IN /\ discovery' = [called |-> TRUE, answer |-> answer, device_label |-> device_label,
                            outcome |-> r.outcome, result |-> r.result]
           /\ UNCHANGED <<tv, now, refreshPosts, lastUpdate, lastDoc, hold, flight>>

NextDiscovery == GetDevicesList

SpecDiscovery == Init /\ [][NextDiscovery]_vars

\* ------------------------------------------------------------------------
\* An update request by request
\* ------------------------------------------------------------------------
\* async_device_update is a coroutine: it is suspended at the health check,
\* at the POST of the refresh trigger and at the GET of the states, and
\* other calls on the object may run meanwhile.  In this machine one update
\* at a time runs from await to await (flight.pc tells where it waits) and
\* select_source runs between its steps, its own two requests answered
\* before the update goes on.  flight.overlap follows a selection made
\* while an update waits: "in_flight" until that update ends, "first_done"
\* until the next update starts, "next_started" while that one runs and
\* "next_fetched" once it has read the states document.

\* the update that waits ends: how far the overlapping selection is then
FlightEnds(fetched) ==
    [flight EXCEPT
       !.pc = "idle",
       !.overlap = IF flight.overlap = "in_flight" THEN "first_done"
                   ELSE IF flight.overlap = "next_started" /\ fetched THEN "next_fetched"
                   ELSE "none"]

\* lines 429-443: up to the await of the health check
UpdateStart ==
    /\ flight.pc = "idle"
    /\ \E u \in UseChannelInfoArgs :
          IF tv.device_id = ""
          THEN /\ flight' = FlightEnds(FALSE)
               /\ UNCHANGED tv
          ELSE /\ tv' = update_begin(tv, u)
               /\ flight' = [flight EXCEPT
                               !.pc = "health",
                               !.overlap = IF flight.overlap = "first_done"
                                           THEN "next_started" ELSE "none"]
    /\ UNCHANGED <<now, refreshPosts, lastUpdate, lastDoc, hold, discovery>>

\* lines 443-459: the health check is answered; _device_refresh is called
\* and, when admitted with use_channel_info set, waits for its POST
UpdateHealthAnswered ==
    /\ flight.pc = "health"
    /\ \E health \in HealthAnswers :
          IF health \in TransportErrors
          THEN /\ tv' = health_failed(tv).tv
               /\ flight' = FlightEnds(FALSE)
               /\ UNCHANGED refreshPosts
          ELSE IF health # "ONLINE"
          THEN /\ tv' = [tv EXCEPT !.state = STATE_OFF]
               /\ flight' = FlightEnds(FALSE)
               /\ UNCHANGED refreshPosts
          ELSE IF tv.throttle = None \/ now - tv.throttle[1] > MIN_TIME_BETWEEN_UPDATES
          THEN /\ tv' = [tv EXCEPT !.state = STATE_ON, !.throttle = Some(now)]
               /\ flight' = [flight EXCEPT
                               !.pc = IF tv.use_channel_info THEN "refresh" ELSE "states"]
               /\ refreshPosts' = IF tv.use_channel_info
                                   THEN Append(refreshPosts, now) ELSE refreshPosts
          ELSE /\ tv' = [tv EXCEPT !.state = STATE_ON]
               /\ flight' = [flight EXCEPT !.pc = "states"]
               /\ UNCHANGED refreshPosts
    /\ UNCHANGED <<now, lastUpdate, lastDoc, hold, discovery>>

\* lines 366-379 and 460-463: the refresh trigger is answered
UpdateRefreshAnswered ==
    /\ flight.pc = "refresh"
    /\ \E refresh \in RefreshAnswers :
          LET r == _device_refresh_body(tv, refresh)
          IN /\ tv' = r.tv
             /\ flight' = IF r.outcome # "ok" \/ r.tv.state = STATE_OFF
                           THEN FlightEnds(FALSE)
                           ELSE [flight EXCEPT !.pc = "states"]
    /\ UNCHANGED <<now, refreshPosts, lastUpdate, lastDoc, hold, discovery>>

\* lines 463-523: the states request is answered
UpdateStatesAnswered ==
    /\ flight.pc = "states"
    /\ \E states \in StatesAnswers :
          LET r == fetch_states(tv, <<>>, states)
          IN /\ tv' = r.tv
             /\ flight' = FlightEnds(FullFetch(r))
             /\ lastDoc' = IF FullFetch(r) THEN states.data ELSE lastDoc
    /\ UNCHANGED <<now, refreshPosts, lastUpdate, hold, discovery>>

\* async_select_source, from call to return, between two steps of an update
OverlapSelectSource ==
    \E src \in SourceArgs, a \in CommandAnswers :
        LET r == async_select_source(tv, now, src, a.post, a.refresh)
        IN /\ tv' = r.tv
           /\ refreshPosts' = refreshPosts \o RefreshStamps(r.net, now)
           /\ flight' = IF flight.pc # "idle" /\ src # tv.source
                         THEN [flight EXCEPT !.overlap = "in_flight", !.selected = src]
                         ELSE [flight EXCEPT !.overlap = "none"]
           /\ UNCHANGED <<now, lastUpdate, lastDoc, hold, discovery>>

NextOverlap ==
    \/ UpdateStart
    \/ UpdateHealthAnswered
    \/ UpdateRefreshAnswered
    \/ UpdateStatesAnswered
    \/ OverlapSelectSource

SpecOverlap == Init /\ [][NextOverlap]_vars

\* ------------------------------------------------------------------------
\* Vocabulary of the properties
\* ------------------------------------------------------------------------
\* the cached telemetry, in the spec's words, as fields of the object
TelemetryFields ==
    {"state", "prev_state", "muted", "volume", "source_list", "source_list_map",
     "source", "channel", "channel_name", "sound_mode", "sound_mode_list",
     "sound_mode_list_map", "picture_mode", "picture_mode_list", "picture_mode_list_map"}

\* the two fields of the override latch
LatchFields == {"is_forced_val", "forced_count"}

\* objects a and b agree on the fields F
SameOn(F, a, b) == \A f \in F : a[f] = b[f]

\* what the document d reports as source, channel and channel name
ReportedSource(d) ==
    LET v == GetOr(d.inputSource, "")
    IN IF v \in {"digitalTv", "DigitalTV", "DIGITALTV"} THEN "digitalTv" ELSE v

ReportedChannel(d) == GetOr(d.tvChannel, "")

ReportedChannelName(d) == GetOr(d.tvChannelName, "")

\* ------------------------------------------------------------------------
\* C1  One-cycle override hold
\* ------------------------------------------------------------------------
\* source, channel and channel name of t are s, "" and ""
HoldsSelected(t, s) == t.source = s /\ t.channel = "" /\ t.channel_name = ""

\* C1, the first two parts: after async_select_source(s) with s different
\* from the cached source, however the command ends, and after the next
\* update that reads the states document, whatever it reports, source = s,
\* channel = "" and channel_name = "".
HoldOneCycle == hold.phase \in {"selected", "held"} => HoldsSelected(tv, hold.source)

\* the three fields are the ones the document d reports
AdoptedAsReported(t, d) ==
    /\ t.source = ReportedSource(d)
    /\ t.channel = ReportedChannel(d)
    /\ t.channel_name = ReportedChannelName(d)

\* the source is the reported one; channel and channel name are the
\* reported ones when use_channel_info is true and empty when it is false
AdoptedPerChannelInfo(t, d) ==
    /\ t.source = ReportedSource(d)
    /\ t.channel = IF t.use_channel_info THEN ReportedChannel(d) ELSE ""
    /\ t.channel_name = IF t.use_channel_info THEN ReportedChannelName(d) ELSE ""

\* C1 as claimed: one-cycle override hold; the update after the one that
\* held the selection (again reading the document) sets source, channel and
\* channel_name to the values the server reports.
C1_AsClaimed ==
    /\ HoldOneCycle
    /\ hold.phase = "adopted" => AdoptedAsReported(tv, Doc(lastDoc[1]))

\* C1 amended: one-cycle override hold; the update after the one that held
\* the selection sets source to the reported source, and channel and
\* channel_name to the reported ones when use_channel_info is true, to ""
\* when it is false.
C1_HoldThenAdopt ==
    /\ HoldOneCycle
    /\ hold.phase = "adopted" => AdoptedPerChannelInfo(tv, Doc(lastDoc[1]))

\* C1 witness: a source was selected, the next update that read a
\* document has held it although the document reported another source and
\* a channel.
C1_Witness ==
    /\ hold.phase = "held" /\ tv.source = "HDMI2"
    /\ lastUpdate = "fetched" /\ lastDoc = Some("tv")
    /\ ReportedSource(Doc("tv")) = "digitalTv" /\ ReportedChannel(Doc("tv")) = "5"

\* ------------------------------------------------------------------------
\* C2  Refresh-trigger rate limit
\* ------------------------------------------------------------------------
\* C2: over any sequence of updates and commands on the object, any two
\* refresh-trigger POSTs are more than MIN_TIME_BETWEEN_UPDATES seconds
\* apart: at most one goes out in any window of that length, and a call
\* inside the window issues none.
C2_RefreshRateLimit ==
    \A i, j \in DOMAIN refreshPosts :
        i < j => refreshPosts[j] - refreshPosts[i] > MIN_TIME_BETWEEN_UPDATES

\* C2 witness: two refresh-trigger POSTs have gone out, the second after
\* the window of the first.
C2_Witness ==
    /\ Len(refreshPosts) = 2
    /\ refreshPosts[2] - refreshPosts[1] = MIN_TIME_BETWEEN_UPDATES + 1

\* ------------------------------------------------------------------------
\* C3  Health-check failure inside an update
\* ------------------------------------------------------------------------
\* the telemetry other than state and prev_state, and the latch
FrameOfFailedUpdate == (TelemetryFields \ {"state", "prev_state"}) \cup LatchFields

\* the update r on the object tv returns, only the health check went out,
\* state is UNKNOWN and the telemetry other than state and prev_state is
\* what it was
DegradedToUnknown(r) ==
    /\ r.outcome = "ok"
    /\ r.net = <<GET_HEALTH>>
    /\ r.tv.state = STATE_UNKNOWN
    /\ SameOn(FrameOfFailedUpdate, r.tv, tv)

\* C3 as claimed: when the health check of an update fails with a timeout,
\* a connection error or an HTTP error, the update returns without raising,
\* state is UNKNOWN, no further request is made and all other cached fields
\* are unchanged.
C3_AsClaimed ==
    \A u \in UseChannelInfoArgs, a \in AllUpdateAnswers :
        tv.device_id # "" /\ a.health \in TransportErrors =>
            LET r == async_device_update(tv, now, u, a.health, a.refresh, a.states)
            IN DegradedToUnknown(r) /\ r.tv.prev_state = tv.prev_state

\* C3 amended: ... and all other cached fields are unchanged, except
\* prev_state, which holds the state from before the call.
C3_HealthFailure ==
    \A u \in UseChannelInfoArgs, a \in AllUpdateAnswers :
        tv.device_id # "" /\ a.health \in TransportErrors =>
            LET r == async_device_update(tv, now, u, a.health, a.refresh, a.states)
            IN DegradedToUnknown(r) /\ r.tv.prev_state = tv.state

\* C3 witness: the last update failed at the health check of a device that
\* was on and tuned to a channel; the cached source and channel are kept.
C3_Witness ==
    /\ lastUpdate = "health_error"
    /\ tv.state = STATE_UNKNOWN /\ tv.prev_state = STATE_ON
    /\ tv.source = "digitalTv" /\ tv.channel = "5"

\* ------------------------------------------------------------------------
\* C4  Failure after a successful health check
\* ------------------------------------------------------------------------
\* the refresh trigger or the states request of the update went out and
\* failed
LaterRequestFails(r, a) ==
    \/ POST_REFRESH \in Range(r.net) /\ a.refresh \in TransportErrors
    \/ GET_STATES \in Range(r.net) /\ a.states.status \in TransportErrors

\* C4 as claimed: if the health check says ONLINE and a later request of
\* the same update fails with a transport error, then at the end of the
\* update state is UNKNOWN and every cached field other than state and
\* prev_state has the value it had before.
C4_AsClaimed ==
    \A u \in UseChannelInfoArgs, a \in AllUpdateAnswers :
        LET r == async_device_update(tv, now, u, a.health, a.refresh, a.states)
        IN tv.device_id # "" /\ a.health = "ONLINE" /\ LaterRequestFails(r, a) =>
            /\ r.tv.state = STATE_UNKNOWN
            /\ SameOn(FrameOfFailedUpdate, r.tv, tv)

\* C4 amended: ... then the update raises that error, at its end state is
\* ON and every cached field other than state and prev_state has the value
\* it had before.
C4_LaterFailure ==
    \A u \in UseChannelInfoArgs, a \in AllUpdateAnswers :
        LET r == async_device_update(tv, now, u, a.health, a.refresh, a.states)
        IN tv.device_id # "" /\ a.health = "ONLINE" /\ LaterRequestFails(r, a) =>
            /\ r.outcome \in TransportErrors
            /\ r.tv.state = STATE_ON
            /\ r.tv.prev_state = tv.state
            /\ SameOn(FrameOfFailedUpdate, r.tv, tv)

\* C4 witness: the last update found the device, which was off, online and
\* then failed at the states request; the cached source and channel are kept.
C4_Witness ==
    /\ lastUpdate = "states_error"
    /\ tv.state = STATE_ON /\ tv.prev_state = STATE_OFF
    /\ tv.source = "digitalTv" /\ tv.channel = "5"

\* ------------------------------------------------------------------------
\* C5  409 on the refresh trigger
\* ------------------------------------------------------------------------
\* C5: in an update where the health check says ONLINE and the refresh
\* trigger goes out and is answered 409, the update returns with state OFF,
\* the states request is never issued, and volume, mute, modes, lists,
\* source, channel and channel name keep their values.
C5_ConflictMeansOff ==
    \A u \in UseChannelInfoArgs, a \in AllUpdateAnswers :
        LET r == async_device_update(tv, now, u, a.health, a.refresh, a.states)
        IN a.health = "ONLINE" /\ a.refresh = "409" /\ POST_REFRESH \in Range(r.net) =>
            /\ r.outcome = "ok"
            /\ r.tv.state = STATE_OFF
            /\ GET_STATES \notin Range(r.net)
            /\ SameOn(TelemetryFields \ {"state", "prev_state"}, r.tv, tv)

\* C5 witness: the last update of a device that was on got 409 to its
\* refresh trigger; the device counts as off, source and channel are kept.
C5_Witness ==
    /\ lastUpdate = "refresh_409"
    /\ tv.state = STATE_OFF /\ tv.prev_state = STATE_ON
    /\ tv.source = "digitalTv" /\ tv.channel = "5"

\* ------------------------------------------------------------------------
\* C6  What a command does after its POST
\* ------------------------------------------------------------------------
\* every call of a public command method that can be made on the object t
\* at time clock, with the answer to its command POST and what it leaves
CommandCalls(t, clock) ==
    UNION {
        {[post |-> a.post, r |-> async_turn_off(t, clock, a.post, a.refresh)],
         [post |-> a.post, r |-> async_turn_on(t, clock, a.post, a.refresh)]}
        \cup {[post |-> a.post,
               r |-> async_send_command(t, clock, c[1], c[2], a.post, a.refresh)] :
                 c \in SendCommandArgs \ {<<"setvolume", "up">>}}
        \cup {[post |-> a.post,
               r |-> async_select_source(t, clock, src, a.post, a.refresh)] :
                 src \in SourceArgs}
        \cup {[post |-> a.post,
               r |-> async_select_vd_source(t, clock, src, a.post, a.refresh)] :
                 src \in SourceArgs}
        \cup {[post |-> a.post,
               r |-> async_set_sound_mode(t, clock, m, a.post, a.refresh)] :
                 m \in SoundModeArgs}
        \cup {[post |-> a.post,
               r |-> async_set_picture_mode(t, clock, m, a.post, a.refresh)] :
                 m \in PictureModeArgs}
        : a \in AllCommandAnswers}

\* the command POST of the call c went out and succeeded
PostSucceeded(c) == c.post = "200" /\ POST_COMMAND \in Range(c.r.net)

\* the telemetry a states document would rewrite and no command sets itself
ServerOnlyFields ==
    {"prev_state", "muted", "volume", "source_list", "source_list_map",
     "sound_mode_list", "sound_mode_list_map", "picture_mode_list",
     "picture_mode_list_map"}

C7_ChannelInfoInvariant ==
    ~tv.use_channel_info => tv.channel = "" /\ tv.channel_name = ""

\* ------------------------------------------------------------------------
\* C8  Volume
\* ------------------------------------------------------------------------
\* the volume the document d stands for: v/100 for an integer string v,
\* 0 when absent or not a number
ReportedVolume(d) ==
    IF d.volume = Some("0") THEN Ratio(0, 1)
    ELSE IF d.volume = Some("100") THEN Ratio(1, 1)
    ELSE Ratio(0, 1)

\* C8: in every reachable state, from construction on, the cached volume is
\* a fraction in [0,1], 0 at construction; after an update that fetches the
\* states document it is v/100 for a reported integer string v and 0 for an
\* absent or non-numeric volume.
C8_VolumeInvariant ==
    /\ RatioLeq(Ratio(0, 1), tv.volume) /\ RatioLeq(tv.volume, Ratio(1, 1))
    /\ lastDoc = None => RatioEq(tv.volume, Ratio(0, 1))
    /\ lastDoc # None => RatioEq(tv.volume, ReportedVolume(Doc(lastDoc[1])))

\* C8, the part about updates alone
C8_VolumeAfterFetch ==
    lastDoc # None =>
        /\ RatioEq(tv.volume, ReportedVolume(Doc(lastDoc[1])))
        /\ RatioLeq(Ratio(0, 1), tv.volume) /\ RatioLeq(tv.volume, Ratio(1, 1))

\* ------------------------------------------------------------------------
\* C9  Selecting a mode that does not exist
\* ------------------------------------------------------------------------
\* no entry of the cached list-map is named mode; no list-map loaded is no
\* entry at all
NoEntryNamed(list_map, mode) ==
    list_map = None \/ \A i \in DOMAIN list_map[1] : list_map[1][i].name # Some(mode)

\* C9: in every reachable state with state ON, setting a sound (picture)
\* mode whose name matches no entry of the cached list-map fails with the
\* invalid-sound-mode (invalid-picture-mode) error, issues no request and
\* leaves the cached mode unchanged, also when no list-map was ever loaded.
C9_InvalidMode ==
    tv.state = STATE_ON =>
        \A a \in AllCommandAnswers :
            /\ \A m \in SoundModeArgs :
                  NoEntryNamed(tv.sound_mode_list_map, m) =>
                      async_set_sound_mode(tv, now, m, a.post, a.refresh)
                          = Ret(tv, <<>>, "InvalidSmartThingsSoundMode")
            /\ \A m \in PictureModeArgs :
                  NoEntryNamed(tv.picture_mode_list_map, m) =>
                      async_set_picture_mode(tv, now, m, a.post, a.refresh)
                          = Ret(tv, <<>>, "InvalidSmartThingsPictureMode")

\* C9, for the states where the list-maps have been loaded
C9_InvalidModeLoaded ==
    tv.state = STATE_ON =>
        \A a \in AllCommandAnswers :
            /\ \A m \in SoundModeArgs :
                  tv.sound_mode_list_map # None /\ NoEntryNamed(tv.sound_mode_list_map, m) =>
                      async_set_sound_mode(tv, now, m, a.post, a.refresh)
                          = Ret(tv, <<>>, "InvalidSmartThingsSoundMode")
            /\ \A m \in PictureModeArgs :
                  tv.picture_mode_list_map # None /\ NoEntryNamed(tv.picture_mode_list_map, m) =>
                      async_set_picture_mode(tv, now, m, a.post, a.refresh)
                          = Ret(tv, <<>>, "InvalidSmartThingsPictureMode")

\* ------------------------------------------------------------------------
\* C10  Selecting a mode while the device is not on
\* ------------------------------------------------------------------------
\* C10: whenever the cached state is OFF or UNKNOWN, setting a sound or a
\* picture mode, for any name, returns without raising, issues no request
\* and leaves every cached field unchanged.
C10_NotOnNoop ==
    tv.state \in {STATE_OFF, STATE_UNKNOWN} =>
        \A a \in AllCommandAnswers :
            /\ \A m \in SoundModeArgs :
                  async_set_sound_mode(tv, now, m, a.post, a.refresh) = Ret(tv, <<>>, "ok")
            /\ \A m \in PictureModeArgs :
                  async_set_picture_mode(tv, now, m, a.post, a.refresh) = Ret(tv, <<>>, "ok")

\* C10 witness: the device counts as off, its list-maps are loaded and
\* name the modes asked for, and the cached sound mode is another one.
C10_Witness ==
    /\ tv.state = STATE_OFF /\ tv.device_id # ""
    /\ tv.sound_mode = Some("Standard")
    /\ ~NoEntryNamed(tv.sound_mode_list_map, "Movie")
    /\ ~NoEntryNamed(tv.picture_mode_list_map, "Dynamic")

\* ------------------------------------------------------------------------
\* C11  What a source selection arms
\* ------------------------------------------------------------------------
\* the object t has source s cached and the override marked and not yet used
Armed(t, s) == t.source = s /\ t.is_forced_val /\ t.forced_count = 0

\* the next update of the object t that reads the states document leaves
\* the cached source s in place, whatever the document says
NextFetchKeeps(t, s) ==
    \A u \in UseChannelInfoArgs, d \in DocNames :
        LET r == async_device_update(t, now, u, "ONLINE", "200", [status |-> "200", data |-> Some(d)])
        IN FullFetch(r) => r.tv.source = s

\* C11 as claimed: every select_source(s), also one where s is the cached
\* source, leaves source = s and the override marked with count 0, set
\* before the command POST, so that the next update reading the states
\* document keeps the source; select_vd_source changes neither.
C11_AsClaimed ==
    \A src \in SourceArgs, a \in AllCommandAnswers :
        /\ LET r == async_select_source(tv, now, src, a.post, a.refresh)
           IN Armed(r.tv, src) /\ NextFetchKeeps(r.tv, src)
        /\ LET v == async_select_vd_source(tv, now, src, a.post, a.refresh)
           IN SameOn(LatchFields \cup {"source"}, v.tv, tv)

\* C11 amended: every select_source(s) with s other than the cached source
\* leaves source = s and the override marked with count 0, whatever becomes
\* of the command POST, and the next update reading the states document
\* keeps the source; a select_source(s) with s the cached source changes
\* neither the source nor the mark, and neither does select_vd_source.
C11_SelectArms ==
    \A src \in SourceArgs, a \in AllCommandAnswers :
        /\ LET r == async_select_source(tv, now, src, a.post, a.refresh)
           IN IF src # tv.source
              THEN Armed(r.tv, src) /\ NextFetchKeeps(r.tv, src)
              ELSE SameOn(LatchFields \cup {"source"}, r.tv, tv)
        /\ LET v == async_select_vd_source(tv, now, src, a.post, a.refresh)
           IN SameOn(LatchFields \cup {"source"}, v.tv, tv)

\* C11 witness: a source other than the cached one has just been selected
\* on an object that had read a document naming another source.
C11_Witness ==
    /\ hold = [phase |-> "selected", source |-> "HDMI2"]
    /\ Armed(tv, "HDMI2")
    /\ lastDoc = Some("hdmi") /\ ReportedSource(Doc("hdmi")) = "HDMI1"

\* ------------------------------------------------------------------------
\* C12  Commands that do nothing
\* ------------------------------------------------------------------------
\* the (cmd_type, command) pairs for which async_send_command builds no
\* payload: a type it does not know, or a step or mute it does not know
NoPayloadArgs ==
    {<<"bogus", "5">>, <<"stepvolume", "on">>, <<"audiomute", "up">>, <<"stepchannel", "off">>}

\* the call r on the object tv issued no request, raised nothing and left
\* every field of the object as it was
SilentNoop(r) == r = Ret(tv, <<>>, "ok")

\* C12: a public command call issues no request, raises nothing and leaves
\* every cached field and the override latch unchanged whenever the device
\* id is empty (for every command method, select_source included) or no
\* command payload is built.
C12_SilentNoop ==
    /\ tv.device_id = "" => \A c \in CommandCalls(tv, now) : SilentNoop(c.r)
    /\ \A cv \in NoPayloadArgs, a \in AllCommandAnswers :
          SilentNoop(async_send_command(tv, now, cv[1], cv[2], a.post, a.refresh))

\* C12, for every command method but select_source
C12_SilentNoopButSelection ==
    /\ tv.device_id = "" =>
          \A a \in AllCommandAnswers :
              /\ SilentNoop(async_turn_off(tv, now, a.post, a.refresh))
              /\ SilentNoop(async_turn_on(tv, now, a.post, a.refresh))
              /\ \A cv \in SendCommandArgs \ {<<"setvolume", "up">>} :
                    SilentNoop(async_send_command(tv, now, cv[1], cv[2], a.post, a.refresh))
              /\ \A src \in SourceArgs :
                    SilentNoop(async_select_vd_source(tv, now, src, a.post, a.refresh))
              /\ \A m \in SoundModeArgs :
                    SilentNoop(async_set_sound_mode(tv, now, m, a.post, a.refresh))
              /\ \A m \in PictureModeArgs :
                    SilentNoop(async_set_picture_mode(tv, now, m, a.post, a.refresh))
    /\ \A cv \in NoPayloadArgs, a \in AllCommandAnswers :
          SilentNoop(async_send_command(tv, now, cv[1], cv[2], a.post, a.refresh))

\* ------------------------------------------------------------------------
\* C13  The source list is derived from the source list-map
\* ------------------------------------------------------------------------
\* the spellings of the id of the tuner
DtvSpellings == {"dtv", "DTV", "Dtv", "dTV", "dtV", "DTv", "dTv", "DtV"}

\* the label under which the entry e is surfaced
SurfacedLabel(e) == IF e.id[1] \in DtvSpellings THEN "digitalTv" ELSE e.id[1]

\* the source list-map the document d decodes to
DecodedSourcesMap(d) ==
    IF d.supportedInputSourcesMap # None /\ d.supportedInputSourcesMap[1].kind = "list"
    THEN d.supportedInputSourcesMap[1].decoded
    ELSE <<>>

\* the labels of the entries with an id of the list-map m, in its order
SurfacedLabels(m) ==
    LET with_id == SelectSeq(m, HasId)
    IN [i \in 1..Len(with_id) |-> SurfacedLabel(with_id[i])]

\* C13: after every update that reads the states document, source_list is
\* the sequence of the ids of the freshly decoded source list-map, entries
\* without id skipped and every spelling of "dtv" replaced by "digitalTv";
\* in every reachable state source_list holds no spelling of "dtv".
C13_DerivedSourceList ==
    /\ lastDoc # None =>
          /\ tv.source_list_map = Some(DecodedSourcesMap(Doc(lastDoc[1])))
          /\ tv.source_list = Some(SurfacedLabels(tv.source_list_map[1]))
    /\ tv.source_list # None =>
          \A i \in DOMAIN tv.source_list[1] : tv.source_list[1][i] \notin DtvSpellings

\* C13 witness: the document read last lists the tuner as "dtv", an HDMI
\* input and an entry without id; the list has two labels.
C13_Witness ==
    /\ lastDoc = Some("hdmi")
    /\ Len(DecodedSourcesMap(Doc("hdmi"))) = 3
    /\ tv.source_list = Some(<<"digitalTv", "HDMI1">>)

\* ------------------------------------------------------------------------
\* C14  From a label of the source list back to the name
\* ------------------------------------------------------------------------
\* the label of the tuner as callers may write it
DigitalTvSpellings == {"digitalTv", "DIGITALTV", "digitaltv"}

\* the entries with an id of the cached source list-map
SourceEntries ==
    IF tv.source_list_map = None THEN {}
    ELSE {tv.source_list_map[1][i] : i \in {j \in DOMAIN tv.source_list_map[1] :
                                              HasId(tv.source_list_map[1][j])}}

\* C14: for every label the derived source list surfaces for an entry e,
\* get_source_name of the label is the name of e; when the list-map holds
\* an entry whose id is a spelling of "dtv", get_source_name("digitalTv"),
\* in any letter case, is the name of that entry.
C14_LookupRoundTrip ==
    \A e \in SourceEntries :
        /\ get_source_name(tv, SurfacedLabel(e)) = GetOr(e.name, "")
        /\ e.id[1] \in DtvSpellings =>
              \A L \in DigitalTvSpellings : get_source_name(tv, L) = GetOr(e.name, "")

\* C14, for the list-maps whose tuner, if any, has the id "dtv" in lower case
C14_LookupRoundTripLowerCase ==
    \A e \in SourceEntries :
        e.id[1] \notin DtvSpellings \ {"dtv"} =>
            /\ get_source_name(tv, SurfacedLabel(e)) = GetOr(e.name, "")
            /\ e.id[1] = "dtv" =>
                  \A L \in DigitalTvSpellings : get_source_name(tv, L) = GetOr(e.name, "")

\* ------------------------------------------------------------------------
\* C15  The modes are hidden unless the device is on
\* ------------------------------------------------------------------------
\* C15: in every reachable state with state other than ON the properties
\* sound_mode, sound_mode_list, picture_mode and picture_mode_list read as
\* None whatever is cached; with state ON they read as the cached values.
C15_ModesHiddenUnlessOn ==
    /\ tv.state # STATE_ON =>
          /\ sound_mode(tv) = None /\ sound_mode_list(tv) = None
          /\ picture_mode(tv) = None /\ picture_mode_list(tv) = None
    /\ tv.state = STATE_ON =>
          /\ sound_mode(tv) = tv.sound_mode
          /\ sound_mode_list(tv) = tv.sound_mode_list
          /\ picture_mode(tv) = tv.picture_mode
          /\ picture_mode_list(tv) = tv.picture_mode_list

\* C15 witness: the device counts as off and modes are cached.
C15_Witness ==
    /\ tv.state = STATE_OFF
    /\ tv.sound_mode = Some("Movie") /\ tv.sound_mode_list = Some(<<"Standard", "Movie">>)
    /\ tv.picture_mode = Some("Dynamic") /\ tv.picture_mode_list = Some(<<"Dynamic">>)
    /\ sound_mode(tv) = None

\* ------------------------------------------------------------------------
\* C16  Device discovery
\* ------------------------------------------------------------------------
\* the items of the last answer
AnsweredDevs == Range(GetOr(discovery.answer.data, <<>>))

\* C16: for every device list the service returns, get_devices_list without
\* a label returns exactly the devices with a device id, type "OCF" and
\* device-type-name "Samsung OCF TV"; with a label, exactly the devices
\* with a device id, type "OCF" and that label, whatever their
\* device-type-name; with no match, an empty dict, without raising.
C16_DiscoveryFilter ==
    discovery.called /\ discovery.answer.status = "200" =>
        /\ discovery.outcome = "ok"
        /\ DOMAIN discovery.result =
              IF discovery.device_label = ""
              THEN {d.deviceId[1] : d \in {x \in AnsweredDevs :
                        /\ x.deviceId # None
                        /\ x.type = Some("OCF")
                        /\ x.deviceTypeName = Some("Samsung OCF TV")}}
              ELSE {d.deviceId[1] : d \in {x \in AnsweredDevs :
                        /\ x.deviceId # None
                        /\ x.type = Some("OCF")
                        /\ x.label = Some(discovery.device_label)}}

\* C16 witness: asked for the label "Living", the service lists an air
\* conditioner and a TV of another type with that label; the first is
\* returned alone.
C16_Witness ==
    /\ discovery.called /\ discovery.device_label = "Living"
    /\ discovery.answer.status = "200"
    /\ {d.deviceId : d \in AnsweredDevs} = {Some("c"), Some("d")}
    /\ DOMAIN discovery.result = {"c"}

\* ------------------------------------------------------------------------
\* C17  Which update uses up the hold
\* ------------------------------------------------------------------------
\* C17 as claimed: after a local source change the locally set source,
\* channel and channel name survive exactly one update; if that first
\* update ends early (health-check failure, device not online, 409 on the
\* refresh trigger), the second update, when it reads the states document,
\* overwrites source with the reported value instead of holding again.
C17_AsClaimed ==
    /\ hold.phase = "missed" => HoldsSelected(tv, hold.source)
    /\ hold.phase = "held_after_miss" => tv.source = ReportedSource(Doc(lastDoc[1]))

\* C17 amended: the locally set source, channel and channel name survive
\* every update that ends before the states document is read, and the first
\* update that reads it; if the first update after the change ends early,
\* the second, when it reads the document, holds the local values, and the
\* read after that overwrites source with the reported value.
C17_HoldLastsOneRead ==
    /\ hold.phase \in {"missed", "polled"} =>
          HoldsSelected(tv, hold.source) /\ Armed(tv, hold.source)
    /\ hold.phase = "held_after_miss" =>
          /\ HoldsSelected(tv, hold.source)
          /\ tv.is_forced_val /\ tv.forced_count = 1
    /\ hold.phase = "adopted" =>
          /\ tv.source = ReportedSource(Doc(lastDoc[1]))
          /\ ~tv.is_forced_val /\ tv.forced_count = 0

\* C17 witness: a source was selected, the update after it ended at the
\* health check, and the one after that read a document naming another
\* source.
C17_Witness ==
    /\ hold = [phase |-> "held_after_miss", source |-> "HDMI2"]
    /\ tv.source = "HDMI2"
    /\ lastUpdate = "fetched" /\ lastDoc = Some("hdmi")
    /\ ReportedSource(Doc("hdmi")) = "HDMI1"

\* ------------------------------------------------------------------------
\* C18  The override latch
\* ------------------------------------------------------------------------
\* C18: in every reachable state forced_count is 0 or 1, and forced_count
\* 1 implies is_forced_val; an update that reads the states document while
\* is_forced_val is set and forced_count is 1 ends with is_forced_val
\* cleared and forced_count 0.
C18_LatchWellFormed ==
    /\ tv.forced_count \in {0, 1}
    /\ tv.forced_count = 1 => tv.is_forced_val
    /\ tv.is_forced_val /\ tv.forced_count = 1 =>
          \A u \in UseChannelInfoArgs, a \in AllUpdateAnswers :
              LET r == async_device_update(tv, now, u, a.health, a.refresh, a.states)
              IN FullFetch(r) => ~r.tv.is_forced_val /\ r.tv.forced_count = 0

\* C18 witness: the forced values have been held for their one cycle.
C18_Witness ==
    /\ tv.is_forced_val /\ tv.forced_count = 1
    /\ hold.phase = "held" /\ lastUpdate = "fetched"

\* ------------------------------------------------------------------------
\* C19  A selection made while an update waits
\* ------------------------------------------------------------------------
\* C19: if select_source(s) is called while an update on the same object
\* is suspended at one of its awaits, the hold is not used up by that
\* update: when the first update started after select_source returned has
\* read the states document, the cached source is still s.
C19_HoldSurvivesOverlap ==
    flight.overlap = "next_fetched" => tv.source = flight.selected

\* C19, as far as the update that was waiting goes: while it runs and after
\* it has ended the cached source is s
C19_HeldByWaitingUpdate ==
    flight.overlap \in {"in_flight", "first_done", "next_started"} =>
        tv.source = flight.selected

====
